---- MODULE Spec2Model ----
(***************************************************************************)
(* A state-machine model of src/js/app.js (kure wellbeing map): the        *)
(* category layers and their markers, the filters, the search box, the     *)
(* favorites list with its localStorage slot, the route overlay and the    *)
(* initial load.                                                           *)
(*                                                                         *)
(* JavaScript strings are sequences of one-character strings, so that      *)
(* toLowerCase and substring containment are computed.  A value that may   *)
(* be undefined is a record [def, val].                                    *)
(***************************************************************************)
EXTENDS Integers, Sequences, FiniteSets, TLC

\* ---------------------------------------------------------------- bounds

\* The longest favorites list the model lets a toggle build.
MaxFavorites == 2
\* The instants "now" range over the hours of days 0 .. MaxDay.
MaxDay == 2
\* At most this many of the seven fetches fail in one load.
MaxFailures == 1
\* The usage counts icons are computed for are 0 .. MaxUsers.
MaxUsers == 300

\* ------------------------------------------------------ program constants

\* CONFIG.marker (app.js:17-19)
minSize == 20
maxSize == 50
sizeMultiplier == 5
\* handleSearch: queries shorter than this re-render everything (app.js:1041)
MinQueryLength == 2
\* Hours in a calendar day (Date arithmetic, app.js:173-175)
HoursPerDay == 24

\* ------------------------------------------------------------- JS values

Undefined == [def |-> FALSE, val |-> <<>>]
Str(s) == [def |-> TRUE, val |-> s]
UndefinedNum == [def |-> FALSE, val |-> 0]
Num(n) == [def |-> TRUE, val |-> n]

\* JavaScript truthiness of an optional string / an optional number.
TruthyStr(x) == x.def /\ x.val # <<>>
TruthyNum(x) == x.def /\ x.val # 0
\* a || b
OrStr(a, b) == IF TruthyStr(a) THEN a ELSE b
OrNum(a, b) == IF TruthyNum(a) THEN a ELSE b

\* String.prototype.toLowerCase, on the alphabet of the sample data.
LowerChar(c) ==
    CASE c = "K" -> "k"
      [] c = "U" -> "u"
      [] c = "R" -> "r"
      [] c = "E" -> "e"
      [] OTHER -> c
toLowerCase(s) == [i \in 1..Len(s) |-> LowerChar(s[i])]

\* String.prototype.includes: q occurs in s as a contiguous substring.
includes(s, q) ==
    \E i \in 0..(Len(s) - Len(q)) : \A j \in 1..Len(q) : s[i + j] = q[j]

\* parseFloat / parseInt on a string of decimal digits: the value of the
\* leading digits, NaN (not ok) when the string does not start with a digit.
DigitValue(c) ==
    CASE c = "0" -> 0 [] c = "1" -> 1 [] c = "2" -> 2 [] c = "3" -> 3
      [] c = "4" -> 4 [] c = "5" -> 5 [] c = "6" -> 6 [] c = "7" -> 7
      [] c = "8" -> 8 [] c = "9" -> 9 [] OTHER -> 0 - 1
RECURSIVE LeadingDigits(_, _)
LeadingDigits(s, acc) ==
    IF s = <<>> \/ DigitValue(Head(s)) < 0 THEN acc
    ELSE LeadingDigits(Tail(s), acc * 10 + DigitValue(Head(s)))
NaN == [ok |-> FALSE, n |-> 0]
parseFloat(s) ==
    IF s = <<>> \/ DigitValue(Head(s)) < 0 THEN NaN
    ELSE [ok |-> TRUE, n |-> LeadingDigits(s, 0)]

\* ------------------------------------------------------------ categories

\* Object.keys(activeFilters), in insertion order (app.js:63-69).
CategoryOrder == <<"wifi", "tourism", "facility", "emergency", "event">>
Categories == {CategoryOrder[i] : i \in 1..Len(CategoryOrder)}

\* The seven resources of CONFIG.dataFiles, in the order of the Promise.all
\* array (app.js:158-166) and of the assignments that follow it.
Resources ==
    <<"wifi", "tourism", "facilities", "emergency", "events", "routes", "crowding">>
ResourceSet == {Resources[i] : i \in 1..Len(Resources)}

\* ------------------------------------------------------------ sample data

\* A record of one category file.  The model keeps one field set for every
\* category: id (the Wifi name for wifi, app.js:776,792), name (Wifi名 / name),
\* address (設置場所住所 / address / location), latitude, longitude
\* (緯度, 経度 / latitude, longitude), users (利用者数, wifi only) and endDate
\* (the day of the event's endDate, events only).
Spot(id, name, address, latitude, longitude, users, endDate) ==
    [id |-> id, name |-> name, address |-> address, latitude |-> latitude,
     longitude |-> longitude, users |-> users, endDate |-> endDate]

SampleWifi ==
    << Spot(<<"K","u","r","e">>, <<"K","u","r","e">>, <<"e","k">>,
            <<"3">>, <<"4">>, <<"1","6","0">>, 0),
       Spot(<<"k","u">>, <<"k","u">>, <<"r","e">>,
            <<"3">>, <<"5">>, <<"4","0">>, 0) >>
SampleTourism ==
    << Spot(<<"1">>, <<"U","R","E">>, <<"k","e">>, <<"3">>, <<"4">>, <<>>, 0) >>
SampleFacilities ==
    << Spot(<<"1">>, <<"r","k">>, <<"u","k">>, <<"2">>, <<"4">>, <<>>, 0) >>
SampleEmergency ==
    << Spot(<<"2">>, <<"e","r">>, <<"k","k">>, <<"3">>, <<"6">>, <<>>, 0) >>
\* One event for each endDate 0 .. MaxDay.
SampleEvents ==
    [d \in 1..(MaxDay + 1) |->
        Spot(<<"e">>, <<"k","u">>, <<"r","e">>, <<"3">>, <<"7">>, <<>>, d - 1)]
\* A route: its id, its polyline (a sequence of points) and its waypoints.
SampleRoutes ==
    << [id |-> "A", polyline |-> <<1, 2>>, waypoints |-> <<1, 2>>],
       [id |-> "B", polyline |-> <<2, 3>>, waypoints |-> <<3>>] >>
SampleCrowding == << [crowdingLevel |-> 50] >>

\* A record whose latitude is no number.
InvalidSpot ==
    Spot(<<"9">>, <<"k","e">>, <<"u","r">>, <<"x">>, <<"4">>, <<"6","0">>, MaxDay)
\* A file's records with such a record after the first.
WithInvalid(spots) == <<Head(spots), InvalidSpot>> \o Tail(spots)

\* The sample records of a category.
CategorySample(category) ==
    CASE category = "wifi" -> SampleWifi
      [] category = "tourism" -> SampleTourism
      [] category = "facility" -> SampleFacilities
      [] category = "emergency" -> SampleEmergency
      [] category = "event" -> SampleEvents

\* What one fetch resolves to: an HTTP failure (response.ok false), a body
\* that is not JSON (response.json() rejects), the JSON literal null, or a
\* JSON object; "sample" carries the sample records under the expected key,
\* "invalid" the sample records and, in a category file, a record without a
\* numeric latitude, "empty" is an object without that key.
FetchOutcomes == {"http", "syntax", "null", "sample", "invalid", "empty"}
FailureKinds == {"http", "syntax", "null"}

\* The array the loader reads from a resource: data.key || [] (app.js:168-178).
Extract(resource, outcome) ==
    IF outcome \notin {"sample", "invalid"} THEN <<>>
    ELSE IF resource = "routes" THEN SampleRoutes
    ELSE IF resource = "crowding" THEN SampleCrowding
    ELSE LET spots == CASE resource = "wifi" -> SampleWifi
                        [] resource = "tourism" -> SampleTourism
                        [] resource = "facilities" -> SampleFacilities
                        [] resource = "emergency" -> SampleEmergency
                        [] resource = "events" -> SampleEvents
         IN  IF outcome = "invalid" THEN WithInvalid(spots) ELSE spots

\* The instants the load may happen at: midnight and noon of each day.
Instants == {d * HoursPerDay + h : d \in 0..MaxDay, h \in {0, HoursPerDay \div 2}}

\* The values typed into the search box.
Queries == { <<>>, <<"k">>, <<"K","U">> }

\* ------------------------------------------------- favorites and storage

\* The categories whose popups carry a favorite button (app.js:792,831,862;
\* createEmergencyPopup and createEventPopup have none).
FavoriteCategories == {"wifi", "tourism", "facility"}

\* The object toggleFavoriteFromPopup builds (app.js:920-926).  latitude and
\* longitude are the numbers the inline handler's arguments evaluate to.
PopupItem(category, id, latitude, longitude) ==
    [id |-> id, category |-> category, name |-> Str(id),
     latitude |-> Num(latitude), longitude |-> Num(longitude)]

\* The item of the button in a spot's popup (app.js:792, 831, 862): the
\* spliced coordinates evaluate to the numbers they spell.
PopupItemOf(category, spot) ==
    PopupItem(category, spot.id, parseFloat(spot.latitude).n,
              parseFloat(spot.longitude).n)

\* The entry toggleFavorite pushes (app.js:518-524); the popup's item has
\* no Wifi名, 緯度 or 経度 field, so the right operands are undefined.
FavoriteEntry(item) ==
    [id |-> item.id, category |-> item.category,
     name |-> OrStr(item.name, Undefined),
     latitude |-> OrNum(item.latitude, UndefinedNum),
     longitude |-> OrNum(item.longitude, UndefinedNum)]

\* fav.id === id && fav.category === category
SameRef(fav, id, category) == fav.id = id /\ fav.category = category

\* findIndex with a test that forgets the category.
findIndex_IdOnly(favs, id, category) ==
    IF \E i \in 1..Len(favs) : favs[i].id = id
    THEN CHOOSE i \in 1..Len(favs) :
            /\ favs[i].id = id
            /\ \A j \in 1..(i - 1) : favs[j].id # id
    ELSE 0

\* favorites.findIndex(...) (app.js:511): the first matching index, 0 for -1.
findIndex(favs, id, category) ==
    IF \E i \in 1..Len(favs) : SameRef(favs[i], id, category)
    THEN CHOOSE i \in 1..Len(favs) :
            /\ SameRef(favs[i], id, category)
            /\ \A j \in 1..(i - 1) : ~SameRef(favs[j], id, category)
    ELSE 0

\* favorites.splice(index, 1)
splice(favs, index) ==
    [i \in 1..(Len(favs) - 1) |-> IF i < index THEN favs[i] ELSE favs[i + 1]]

\* favorites.some(fav => fav.id === id && fav.category === category)
IsFavoriteIn(favs, id, category) ==
    \E i \in 1..Len(favs) : SameRef(favs[i], id, category)

\* toggleFavorite with the test index > 0 for index >= 0: a match at the
\* head of the list is taken for no match.
ToggleInList_MissesFirst(favs, item) ==
    LET index == findIndex(favs, item.id, item.category)
    IN  IF index > 1 THEN splice(favs, index)
        ELSE Append(favs, FavoriteEntry(item))

\* The list toggleFavorite leaves (app.js:511-525).
ToggleInList(favs, item) ==
    LET index == findIndex(favs, item.id, item.category)
    IN  IF index >= 1 THEN splice(favs, index)
        ELSE Append(favs, FavoriteEntry(item))

\* filter with a test that forgets the category.
RECURSIVE RemoveFromList_IdOnly(_, _, _)
RemoveFromList_IdOnly(favs, id, category) ==
    IF favs = <<>> THEN <<>>
    ELSE IF Head(favs).id = id
         THEN RemoveFromList_IdOnly(Tail(favs), id, category)
         ELSE <<Head(favs)>> \o RemoveFromList_IdOnly(Tail(favs), id, category)

\* favorites.filter(fav => !(fav.id === id && fav.category === category))
RECURSIVE RemoveFromList(_, _, _)
RemoveFromList(favs, id, category) ==
    IF favs = <<>> THEN <<>>
    ELSE IF SameRef(Head(favs), id, category)
         THEN RemoveFromList(Tail(favs), id, category)
         ELSE <<Head(favs)>> \o RemoveFromList(Tail(favs), id, category)

\* JSON text is modelled by what it parses to.  A serialized entry is the
\* sequence of its defined members, in insertion order: JSON.stringify drops
\* a member whose value is undefined.
StringToken(s) == [t |-> "string", s |-> s, n |-> 0]
NumberToken(n) == [t |-> "number", s |-> <<>>, n |-> n]
StringifyEntry(fav) ==
    << <<"id", StringToken(fav.id)>>, <<"category", StringToken(<<fav.category>>)>> >>
    \o (IF fav.name.def THEN << <<"name", StringToken(fav.name.val)>> >> ELSE <<>>)
    \o (IF fav.latitude.def
        THEN << <<"latitude", NumberToken(fav.latitude.val)>> >> ELSE <<>>)
    \o (IF fav.longitude.def
        THEN << <<"longitude", NumberToken(fav.longitude.val)>> >> ELSE <<>>)

\* The contents of the localStorage slot 'kure-map-favorites'.
NoItem == [kind |-> "absent", items |-> <<>>]
EmptyText == [kind |-> "empty", items |-> <<>>]
BrokenText == [kind |-> "broken", items |-> <<>>]
NullText == [kind |-> "null", items |-> <<>>]
ArrayText(items) == [kind |-> "array", items |-> items]

\* A value of the variable favorites: an array, or what JSON.parse makes of
\* JSON text that is not an array.
Array(items) == [isArray |-> TRUE, items |-> items]
NotAnArray == [isArray |-> FALSE, items |-> <<>>]

\* JSON.stringify(favorites)
stringify(favs) ==
    IF favs.isArray
    THEN ArrayText([i \in 1..Len(favs.items) |-> StringifyEntry(favs.items[i])])
    ELSE NullText

\* Reading member key of a parsed object: its token, or undefined.
HasMember(pairs, key) == \E i \in 1..Len(pairs) : pairs[i][1] = key
Member(pairs, key) == pairs[CHOOSE i \in 1..Len(pairs) : pairs[i][1] = key][2]
ParseEntry(pairs) ==
    [id |-> Member(pairs, "id").s,
     category |-> Member(pairs, "category").s[1],
     name |-> IF HasMember(pairs, "name")
              THEN Str(Member(pairs, "name").s) ELSE Undefined,
     latitude |-> IF HasMember(pairs, "latitude")
                  THEN Num(Member(pairs, "latitude").n) ELSE UndefinedNum,
     longitude |-> IF HasMember(pairs, "longitude")
                   THEN Num(Member(pairs, "longitude").n) ELSE UndefinedNum]

\* JSON.parse(stored): throws on broken text.
parse(text) ==
    CASE text.kind = "broken" -> [threw |-> TRUE, value |-> NotAnArray]
      [] text.kind = "array" ->
            [threw |-> FALSE,
             value |-> Array([i \in 1..Len(text.items) |-> ParseEntry(text.items[i])])]
      [] OTHER -> [threw |-> FALSE, value |-> NotAnArray]

\* loadFavoritesFromStorage (app.js:489-498): the value of favorites after
\* it, from the slot's content and the value before.  An absent item is
\* null and an empty text is '', both falsy.
LoadFavorites(stored, before) ==
    IF stored.kind \in {"absent", "empty"} THEN before
    ELSE IF parse(stored).threw THEN Array(<<>>)
         ELSE parse(stored).value

\* ------------------------------------------------------------------ state

VARIABLES
    pc,              \* where initializeApp is: "start", "loading", "ready", "failed"
    map,             \* "undefined", or "created" once initializeMap has run
    mapLayers,       \* the layers attached to the map
    markersLayer,    \* category -> the markers in its layer group, in order
    allData,         \* the dataset (app.js:54-62)
    activeFilters,   \* category -> BOOLEAN (app.js:63-69)
    currentRoute,    \* the active route, NoRoute for null
    routePolyline,   \* the polyline layer, NoLayer for null
    routeMarkers,    \* the waypoint marker layers
    routeItems,      \* the .route-item elements: [routeId, active]
    routeControls,   \* #route-controls: "missing", "hidden" or "shown"
    favorites,       \* the favorites list (or a value that is no array)
    storage,         \* the localStorage slot 'kure-map-favorites'
    favoritesPanel,  \* the entries drawn in #favorites-container
    query,           \* the value of #search-input as handleSearch last read it
    clock,           \* the instant new Date() returns (the environment's clock)
    payloads,        \* resource -> what its fetch resolved to, "pending" before
    icon,            \* a usage count and the icon computed for it, NoIcon for none
    leaflet,         \* what L.marker does with a NaN coordinate (the library's choice)
    lastOp           \* history: the handler that ran last, and what it was given

vars ==
    << pc, map, mapLayers, markersLayer, allData, activeFilters, currentRoute,
       routePolyline, routeMarkers, routeItems, routeControls, favorites,
       storage, favoritesPanel, query, clock, payloads, leaflet, icon, lastOp >>

\* The history record of a handler: its name, the (category, id) a favorite
\* handler was given and whether the handler before it was toggleFavorite with
\* the same pair, the route a route handler was given and the route it
\* replaced.
Op(name) ==
    [op |-> name, category |-> "", id |-> <<>>, twice |-> FALSE,
     route |-> "", replaced |-> ""]

\* A layer on the map: a category's layer group, a route's polyline, a
\* route's waypoint marker.
LayerGroup(category) == [kind |-> "layerGroup", ref |-> category, index |-> 0]
Polyline(route) == [kind |-> "polyline", ref |-> route.id, index |-> 0]
Waypoint(route, i) == [kind |-> "waypoint", ref |-> route.id, index |-> i]
NoLayer == [kind |-> "null", ref |-> "", index |-> 0]
NoRoute == [id |-> "", polyline |-> <<>>, waypoints |-> <<>>]

\* L.marker is given [parseFloat(...), parseFloat(...)] (app.js:232, 248, 265,
\* 282, 298).  The library is not part of the source: for a NaN coordinate it
\* either throws or builds a marker at that position.
LatLngChecks == {"throws", "accepts"}

\* A JavaScript number that need not be whole, as a fraction num / den with
\* den > 0, and the arithmetic the sizing uses.
Whole(n) == [num |-> n, den |-> 1]
Divide(n, d) == [num |-> n, den |-> d]
Less(a, b) == a.num * b.den < b.num * a.den
SameNumber(a, b) == a.num * b.den = b.num * a.den
MathMin(a, b) == IF Less(b, a) THEN b ELSE a
MathMax(a, b) == IF Less(a, b) THEN b ELSE a

\* getMarkerSize with a whole-number division.
getMarkerSize_Floor(value) ==
    LET size == Whole(value \div sizeMultiplier)
    IN  MathMax(Whole(minSize), MathMin(Whole(maxSize), size))

\* getMarkerSize (app.js:726-729)
getMarkerSize(value) ==
    LET size == Divide(value, sizeMultiplier)
    IN  MathMax(Whole(minSize), MathMin(Whole(maxSize), size))

\* getWifiMarkerColor with inclusive thresholds.
getWifiMarkerColor_Inclusive(users) ==
    IF users >= 150 THEN "#F44336"
    ELSE IF users >= 100 THEN "#FF9800"
    ELSE IF users >= 50 THEN "#FFC107"
    ELSE "#4CAF50"

\* getWifiMarkerColor (app.js:734-739); the last value is CONFIG.colors.wifi
\* (app.js:22).
getWifiMarkerColor(users) ==
    IF users > 150 THEN "#F44336"
    ELSE IF users > 100 THEN "#FF9800"
    ELSE IF users > 50 THEN "#FFC107"
    ELSE "#4CAF50"

\* The size and color renderWifiMarkers computes for a usage count
\* (app.js:219-221).
WifiIcon(users) ==
    [users |-> users, size |-> getMarkerSize(users),
     color |-> getWifiMarkerColor(users)]
\* A usage count whose icon is still to be computed, no usage count at all,
\* and the icon of a usage count that is NaN: NaN / 5 is NaN, Math.min and
\* Math.max return NaN for a NaN argument, and every comparison with NaN is
\* false.
Pending(users) == [users |-> users, size |-> Whole(0), color |-> ""]
NoIcon == Pending(0 - 1)
NaNIcon == [users |-> 0 - 1, size |-> Divide(0, 0), color |-> "#4CAF50"]
\* parseInt(spot.利用者数) and the icon for it (app.js:219-221).
IconOf(spot) ==
    IF parseFloat(spot.users).ok THEN WifiIcon(parseFloat(spot.users).n)
    ELSE NaNIcon

EmptyData ==
    [wifi |-> <<>>, tourism |-> <<>>, facility |-> <<>>, emergency |-> <<>>,
     event |-> <<>>, routes |-> <<>>, crowding |-> <<>>]

\* What the slot may hold when the page opens: nothing, an empty text, text
\* that is not JSON, JSON that is no array, or a list an earlier session saved.
InitialStorage ==
    { NoItem, EmptyText, BrokenText, NullText,
      stringify(Array(<<>>)),
      stringify(Array(<< FavoriteEntry(PopupItem("tourism", <<"1">>, 3, 4)) >>)) }

\* The state when the page opens, for a set of clock readings, a set of
\* slot contents and a set of usage counts to compute icons for.
InitState(instants, slots, icons) ==
    /\ pc = "start"
    /\ map = "undefined"
    /\ mapLayers = {}
    /\ markersLayer = [c \in Categories |-> <<>>]
    /\ allData = EmptyData
    /\ activeFilters = [c \in Categories |-> TRUE]
    /\ currentRoute = NoRoute
    /\ routePolyline = NoLayer
    /\ routeMarkers = <<>>
    /\ routeItems = <<>>
    /\ routeControls = "missing"
    /\ favorites = Array(<<>>)
    /\ storage \in slots
    /\ favoritesPanel = <<>>
    /\ query = <<>>
    /\ clock \in instants
    /\ payloads = [r \in ResourceSet |-> "pending"]
    /\ leaflet \in LatLngChecks
    /\ icon \in icons
    /\ lastOp = Op("none")

InitWith(instants, slots) == InitState(instants, slots, {NoIcon})

Init == InitWith(Instants, InitialStorage)

\* ---------------------------------------------------------------- markers

\* The marker a render function builds for a spot: its position, for a wifi
\* spot the size and color of its icon, and the popup, whose favorite button
\* shows the membership at construction time (app.js:776, 802, 840).
Marker(category, spot, favs) ==
    [spot |-> spot,
     latitude |-> parseFloat(spot.latitude),
     longitude |-> parseFloat(spot.longitude),
     icon |-> IF category = "wifi" THEN IconOf(spot) ELSE NoIcon,
     isFavorite |-> category \in FavoriteCategories
                    /\ IsFavoriteIn(favs.items, spot.id, category)]

\* layerGroup.clearLayers()
clearLayers(layer) == <<>>

\* Building the marker of a record throws: L.marker on a NaN coordinate
\* when the library rejects it, or favorites.some in createWifiPopup,
\* createTourismPopup and createFacilityPopup when favorites is no array.
MarkerThrows(category, spot, favs) ==
    \/ /\ leaflet = "throws"
       /\ ~(parseFloat(spot.latitude).ok /\ parseFloat(spot.longitude).ok)
    \/ category \in FavoriteCategories /\ ~favs.isArray

\* The index of the first record whose marker throws, Len(spots) + 1 if none.
FirstThrow(category, spots, favs) ==
    LET throwing == {i \in 1..Len(spots) : MarkerThrows(category, spots[i], favs)}
    IN  IF throwing = {} THEN Len(spots) + 1
        ELSE CHOOSE i \in throwing : \A j \in throwing : i <= j

\* One render function (app.js:215-302): clear the group, then add a marker
\* for every record, in order; no record is tested before its marker is
\* built.  The forEach ends at the first throw, and the markers added
\* before it stay in the group.
RenderCategory(layer, category, spots, favs) ==
    LET k == FirstThrow(category, spots, favs)
    IN  [threw |-> k <= Len(spots),
         markers |-> clearLayers(layer)
                     \o [i \in 1..(k - 1) |-> Marker(category, spots[i], favs)]]

renderWifiMarkers(layer, data, favs) == RenderCategory(layer, "wifi", data.wifi, favs)
renderTourismMarkers(layer, data, favs) ==
    RenderCategory(layer, "tourism", data.tourism, favs)
renderFacilityMarkers(layer, data, favs) ==
    RenderCategory(layer, "facility", data.facility, favs)
renderEmergencyMarkers(layer, data, favs) ==
    RenderCategory(layer, "emergency", data.emergency, favs)
\* renderEventMarkers without its clearLayers call.
renderEventMarkers_NoClear(layer, data, favs) ==
    [threw |-> RenderCategory(layer, "event", data.event, favs).threw,
     markers |-> layer \o RenderCategory(layer, "event", data.event, favs).markers]
renderEventMarkers(layer, data, favs) ==
    RenderCategory(layer, "event", data.event, favs)

RenderOne(category, layer, data, favs) ==
    CASE category = "wifi" -> renderWifiMarkers(layer, data, favs)
      [] category = "tourism" -> renderTourismMarkers(layer, data, favs)
      [] category = "facility" -> renderFacilityMarkers(layer, data, favs)
      [] category = "emergency" -> renderEmergencyMarkers(layer, data, favs)
      [] category = "event" -> renderEventMarkers(layer, data, favs)

\* renderAllMarkers (app.js:204-210): the five render functions in order; a
\* throw leaves the later groups as they were.
RECURSIVE RenderFrom(_, _, _, _)
RenderFrom(k, layers, data, favs) ==
    IF k > Len(CategoryOrder) THEN [threw |-> FALSE, layers |-> layers]
    ELSE LET c == CategoryOrder[k]
             r == RenderOne(c, layers[c], data, favs)
             next == [layers EXCEPT ![c] = r.markers]
         IN  IF r.threw THEN [threw |-> TRUE, layers |-> next]
             ELSE RenderFrom(k + 1, next, data, favs)
renderAllMarkers(layers, data, favs) == RenderFrom(1, layers, data, favs)

\* ---------------------------------------------------------------- loading

\* The field of allData a resource is assigned to (app.js:168-178).
FieldOf(resource) ==
    CASE resource = "facilities" -> "facility"
      [] resource = "events" -> "event"
      [] OTHER -> resource

\* new Date(event.endDate): midnight at the start of that day.  Instants are
\* hours since midnight of day 0 in the zone the page runs in, taken to be
\* the zone a date-only string is read in.
DateOf(day) == day * HoursPerDay

\* The event filter (app.js:172-176): endDate >= today.
KeepEvent(event, now) == DateOf(event.endDate) >= now

RECURSIVE filterEvents(_, _)
filterEvents(events, now) ==
    IF events = <<>> THEN <<>>
    ELSE IF KeepEvent(Head(events), now)
         THEN <<Head(events)>> \o filterEvents(Tail(events), now)
         ELSE filterEvents(Tail(events), now)

\* The value assigned for one resource.
Assigned(resource, outcome, now) ==
    IF resource = "events" THEN filterEvents(Extract(resource, outcome), now)
    ELSE Extract(resource, outcome)

\* The assignments of app.js:168-178, one after the other from the k-th on:
\* reading a member of a null payload throws a TypeError, and the
\* assignments made before it stay.
RECURSIVE AssignFrom(_, _, _, _)
AssignFrom(k, data, outcomes, now) ==
    IF k > Len(Resources) THEN [threw |-> FALSE, data |-> data]
    ELSE LET r == Resources[k]
         IN  IF outcomes[r] = "null" THEN [threw |-> TRUE, data |-> data]
             ELSE AssignFrom(k + 1,
                     [data EXCEPT ![FieldOf(r)] = Assigned(r, outcomes[r], now)],
                     outcomes, now)

\* fetchData (app.js:189-195) rejects on a non-ok response and on a body
\* that is not JSON.
FetchRejects(outcome) == outcome \in {"http", "syntax"}

\* loadAllData (app.js:156-184): Promise.all rejects when any fetch does,
\* before any assignment; otherwise the assignments run.
loadAllData(data, outcomes, now) ==
    IF \E r \in ResourceSet : FetchRejects(outcomes[r])
    THEN [threw |-> TRUE, data |-> data]
    ELSE AssignFrom(1, data, outcomes, now)

\* What the files hold when every fetch succeeds: the sample records, the
\* sample records with a record without a position in every category file,
\* objects without the expected keys, or only the routes and crowding records.
Variants == {"sample", "invalid", "empty", "overlays"}
VariantOutcome(variant, resource) ==
    CASE variant = "sample" -> "sample"
      [] variant = "invalid" -> "invalid"
      [] variant = "empty" -> "empty"
      [] variant = "overlays" ->
            IF resource \in {"routes", "crowding"} THEN "sample" ELSE "empty"

\* initializeMap (app.js:133-147): every layer group is added to the map.
initializeMap == {LayerGroup(c) : c \in Categories}

\* renderRoutes (app.js:311-330): one .route-item per route.
renderRoutes(routes) ==
    [i \in 1..Len(routes) |-> [routeId |-> routes[i].id, active |-> FALSE]]

\* renderFavorites (app.js:534-562): the entries drawn, each with the
\* arguments of its removeFavorite button.
renderFavorites(favs) ==
    [i \in 1..Len(favs.items) |->
        [id |-> favs.items[i].id, category |-> favs.items[i].category]]

\* ------------------------------------------------------------- initializeApp

\* initializeApp up to its await (app.js:85-96): loadFavoritesFromStorage,
\* initializeMap, and the seven fetches are issued.
InitializeAppStart ==
    /\ pc = "start"
    /\ favorites' = LoadFavorites(storage, favorites)
    /\ map' = "created"
    /\ mapLayers' = mapLayers \cup initializeMap
    /\ pc' = "loading"
    /\ lastOp' = Op("initializeApp")
    /\ UNCHANGED << markersLayer, allData, activeFilters, currentRoute,
                    routePolyline, routeMarkers, routeItems, routeControls,
                    storage, favoritesPanel, query, clock, leaflet, icon, payloads >>

\* initializeApp from the settling of the fetches to its end (app.js:96-127).
\* Everything after the await runs without yielding; the first throw ends it
\* in the catch block, and what ran before the throw stays done.
InitializeAppResume ==
    /\ pc = "loading"
    /\ \E variant \in Variants, failed \in SUBSET ResourceSet :
         /\ Cardinality(failed) <= MaxFailures
         /\ \E kind \in [failed -> FailureKinds] :
              LET outcomes == [r \in ResourceSet |->
                                  IF r \in failed THEN kind[r]
                                  ELSE VariantOutcome(variant, r)]
                  load == loadAllData(allData, outcomes, clock)
                  render == renderAllMarkers(markersLayer, load.data, favorites)
                  rendered == ~load.threw /\ ~render.threw
                  done == rendered /\ favorites.isArray
              IN  /\ payloads' = outcomes
                  /\ allData' = load.data
                  /\ markersLayer' = IF load.threw THEN markersLayer ELSE render.layers
                  /\ routeItems' = IF rendered THEN renderRoutes(load.data.routes)
                                   ELSE routeItems
                  /\ favoritesPanel' = IF done THEN renderFavorites(favorites)
                                       ELSE favoritesPanel
                  /\ routeControls' = IF done THEN "hidden" ELSE routeControls
                  /\ pc' = IF done THEN "ready" ELSE "failed"
    /\ lastOp' = Op("initializeApp")
    /\ UNCHANGED << map, mapLayers, activeFilters, currentRoute, routePolyline,
                    routeMarkers, favorites, storage, query, clock, leaflet, icon >>

\* -------------------------------------------------------------- favorites

\* saveFavoritesToStorage (app.js:503-505): the text written to the slot.
saveFavoritesToStorage(favs) == stringify(favs)

\* toggleFavorite that saves only after adding.
toggleFavorite_NoSaveOnRemove(favs, stored, item) ==
    LET after == Array(ToggleInList(favs.items, item))
    IN  [favorites |-> after,
         storage |-> IF Len(after.items) < Len(favs.items) THEN stored
                     ELSE saveFavoritesToStorage(after),
         panel |-> renderFavorites(after)]

\* toggleFavorite (app.js:510-529) on an array: the list, the slot and the
\* panel it leaves.
toggleFavorite(favs, stored, item) ==
    LET after == Array(ToggleInList(favs.items, item))
    IN  [favorites |-> after,
         storage |-> saveFavoritesToStorage(after),
         panel |-> renderFavorites(after)]

\* removeFavorite (app.js:567-571).
removeFavorite(favs, stored, id, category) ==
    LET after == Array(RemoveFromList(favs.items, id, category))
    IN  [favorites |-> after,
         storage |-> saveFavoritesToStorage(after),
         panel |-> renderFavorites(after)]

\* The favorite button of the popup of the i-th marker of a category can be
\* pressed: the marker is in a layer group that is on the map, its popup has
\* a button, and the button's inline handler (app.js:792, 831, 862), which
\* splices the raw latitude and longitude into the call, evaluates.
CanPressFavorite(category, i) ==
    /\ category \in FavoriteCategories
    /\ i \in 1..Len(markersLayer[category])
    /\ LayerGroup(category) \in mapLayers
    /\ markersLayer[category][i].latitude.ok
    /\ markersLayer[category][i].longitude.ok

\* A list of MaxFavorites entries is not extended (a bound of the model).
WithinBound(favs, item) ==
    Len(favs) < MaxFavorites \/ IsFavoriteIn(favs, item.id, item.category)

\* toggleFavoriteFromPopup (app.js:919-932), called by a popup's button.
ToggleFavoriteFromPopup(category, i) ==
    /\ CanPressFavorite(category, i)
    /\ LET m == markersLayer[category][i]
           item == PopupItemOf(category, m.spot)
           r == toggleFavorite(favorites, storage, item)
       IN  IF ~favorites.isArray
           THEN /\ lastOp' = Op("toggleFavorite threw")
                /\ UNCHANGED << favorites, storage, favoritesPanel >>
           ELSE /\ WithinBound(favorites.items, item)
                /\ favorites' = r.favorites
                /\ storage' = r.storage
                /\ favoritesPanel' = r.panel
                /\ lastOp' = [Op("toggleFavorite") EXCEPT
                                !.category = item.category, !.id = item.id,
                                !.twice = /\ lastOp.op = "toggleFavorite"
                                          /\ lastOp.category = item.category
                                          /\ lastOp.id = item.id]
    /\ UNCHANGED << pc, map, mapLayers, markersLayer, allData, activeFilters,
                    currentRoute, routePolyline, routeMarkers, routeItems,
                    routeControls, query, clock, leaflet, icon, payloads >>

\* removeFavorite, called by the button of the i-th entry of the panel.
RemoveFavorite(i) ==
    /\ i \in 1..Len(favoritesPanel)
    /\ LET r == removeFavorite(favorites, storage, favoritesPanel[i].id,
                               favoritesPanel[i].category)
       IN  /\ favorites' = r.favorites
           /\ storage' = r.storage
           /\ favoritesPanel' = r.panel
    /\ lastOp' = [Op("removeFavorite") EXCEPT
                    !.category = favoritesPanel[i].category,
                    !.id = favoritesPanel[i].id]
    /\ UNCHANGED << pc, map, mapLayers, markersLayer, allData, activeFilters,
                    currentRoute, routePolyline, routeMarkers, routeItems,
                    routeControls, query, clock, leaflet, icon, payloads >>

\* ------------------------------------------------------ filters and search

\* applyFilters that never removes a group.
applyFilters_AddOnly(layers, filters) ==
    layers \cup {LayerGroup(c) : c \in {d \in Categories : filters[d]}}

\* applyFilters whose else branch flips the group: it removes a group that
\* is on the map and adds one that is not.
applyFilters_FlipsHidden(layers, filters) ==
    LET hidden == {LayerGroup(c) : c \in {d \in Categories : ~filters[d]}}
    IN  ((layers \cup {LayerGroup(c) : c \in {d \in Categories : filters[d]}})
            \ hidden) \cup (hidden \ layers)

\* applyFilters (app.js:941-949): a group whose filter is true is added to
\* the map, one whose filter is false is removed.
applyFilters(layers, filters) ==
    (layers \cup {LayerGroup(c) : c \in {d \in Categories : filters[d]}})
        \ {LayerGroup(c) : c \in {d \in Categories : ~filters[d]}}

\* toggleFilter (app.js:954-957), wired by setupEventListeners.
ToggleFilter(category) ==
    /\ pc = "ready"
    /\ activeFilters' = [activeFilters EXCEPT ![category] = ~activeFilters[category]]
    /\ mapLayers' = applyFilters(mapLayers, activeFilters')
    /\ lastOp' = Op("toggleFilter")
    /\ UNCHANGED << pc, map, markersLayer, allData, currentRoute, routePolyline,
                    routeMarkers, routeItems, routeControls, favorites, storage,
                    favoritesPanel, query, clock, leaflet, icon, payloads >>

\* handleSearch (app.js:1038-1048): the layers it leaves for a typed value.
\* A longer query falls through to the end of the function.
handleSearch(layers, data, favs, value) ==
    IF Len(toLowerCase(value)) < MinQueryLength
    THEN renderAllMarkers(layers, data, favs).layers
    ELSE layers

HandleSearch(value) ==
    /\ pc = "ready"
    /\ query' = toLowerCase(value)
    /\ markersLayer' = handleSearch(markersLayer, allData, favorites, value)
    /\ lastOp' = Op("handleSearch")
    /\ UNCHANGED << pc, map, mapLayers, allData, activeFilters, currentRoute,
                    routePolyline, routeMarkers, routeItems, routeControls,
                    favorites, storage, favoritesPanel, clock, leaflet, icon, payloads >>

\* ----------------------------------------------------------------- routes

\* The part of the state the route functions work on.
RouteState ==
    [mapLayers |-> mapLayers, currentRoute |-> currentRoute,
     routePolyline |-> routePolyline, routeMarkers |-> routeMarkers,
     routeItems |-> routeItems, routeControls |-> routeControls]

\* The layers in an array of layers.
Range(seq) == {seq[i] : i \in 1..Len(seq)}

\* item.classList.remove('active') on every .route-item.
Deactivate(items) == [i \in 1..Len(items) |-> [items[i] EXCEPT !.active = FALSE]]

\* document.querySelector(`[data-route-id="${id}"]`).classList.add('active'):
\* the first element carrying that id.
Activate(items, id) ==
    LET first == CHOOSE i \in 1..Len(items) :
                    /\ items[i].routeId = id
                    /\ \A j \in 1..(i - 1) : items[j].routeId # id
    IN  [items EXCEPT ![first].active = TRUE]

\* clearRoute that empties routeMarkers without taking the markers off the map.
clearRoute_KeepsMarkers(st) ==
    [threw |-> st.routeControls = "missing",
     st |-> [mapLayers |-> st.mapLayers \ {st.routePolyline},
             currentRoute |-> NoRoute,
             routePolyline |-> NoLayer,
             routeMarkers |-> <<>>,
             routeItems |-> Deactivate(st.routeItems),
             routeControls |-> IF st.routeControls = "missing" THEN "missing"
                               ELSE "hidden"]]

\* clearRoute (app.js:380-396).  hideRouteControls comes last and throws
\* when #route-controls does not exist yet.
clearRoute(st) ==
    [threw |-> st.routeControls = "missing",
     st |-> [mapLayers |-> (st.mapLayers \ {st.routePolyline})
                               \ Range(st.routeMarkers),
             currentRoute |-> NoRoute,
             routePolyline |-> NoLayer,
             routeMarkers |-> <<>>,
             routeItems |-> Deactivate(st.routeItems),
             routeControls |-> IF st.routeControls = "missing" THEN "missing"
                               ELSE "hidden"]]

\* showRoute (app.js:335-375); a throw of clearRoute ends it there.
showRoute(st, route) ==
    LET cleared == clearRoute(st)
        c == cleared.st
        markers == [i \in 1..Len(route.waypoints) |-> Waypoint(route, i)]
    IN  IF cleared.threw THEN cleared
        ELSE [threw |-> FALSE,
              st |-> [mapLayers |-> (c.mapLayers \cup {Polyline(route)})
                                        \cup Range(markers),
                      currentRoute |-> route,
                      routePolyline |-> Polyline(route),
                      routeMarkers |-> c.routeMarkers \o markers,
                      routeItems |-> Activate(Deactivate(c.routeItems), route.id),
                      routeControls |-> "shown"]]

SetRouteState(st) ==
    /\ mapLayers' = st.mapLayers
    /\ currentRoute' = st.currentRoute
    /\ routePolyline' = st.routePolyline
    /\ routeMarkers' = st.routeMarkers
    /\ routeItems' = st.routeItems
    /\ routeControls' = st.routeControls

\* A click on the i-th .route-item (app.js:327).
ShowRoute(i) ==
    /\ i \in 1..Len(routeItems)
    /\ LET r == showRoute(RouteState, allData.routes[i])
       IN  /\ SetRouteState(r.st)
           /\ lastOp' = [Op(IF r.threw THEN "showRoute threw" ELSE "showRoute")
                          EXCEPT !.route = allData.routes[i].id,
                                 !.replaced = currentRoute.id]
    /\ UNCHANGED << pc, map, markersLayer, allData, activeFilters, favorites,
                    storage, favoritesPanel, query, clock, leaflet, icon, payloads >>

\* A click on #clear-route-btn (app.js:411), which createRouteControls made.
ClearRoute ==
    /\ routeControls # "missing"
    /\ SetRouteState(clearRoute(RouteState).st)
    /\ lastOp' = [Op("clearRoute") EXCEPT !.replaced = currentRoute.id]
    /\ UNCHANGED << pc, map, markersLayer, allData, activeFilters, favorites,
                    storage, favoritesPanel, query, clock, leaflet, icon, payloads >>

\* --------------------------------------------------------- specifications

\* The positions a marker can have in its layer group.
MarkerSlots == UNION {1..Len(CategorySample(c)) : c \in Categories}

PressFavoriteIn(categories) ==
    \E c \in categories, i \in MarkerSlots : ToggleFavoriteFromPopup(c, i)
PressFavorite == PressFavoriteIn(FavoriteCategories)
PressRemove == \E i \in 1..(MaxFavorites + 1) : RemoveFavorite(i)
ClickFilter == \E c \in Categories : ToggleFilter(c)
TypeSearch == \E q \in Queries : HandleSearch(q)
ClickRoute == \E i \in 1..Len(SampleRoutes) : ShowRoute(i)

\* Every handler, every clock reading and every slot content.
Next ==
    \/ InitializeAppStart
    \/ InitializeAppResume
    \/ PressFavorite
    \/ PressRemove
    \/ ClickFilter
    \/ TypeSearch
    \/ ClickRoute
    \/ ClearRoute
Spec == Init /\ [][Next]_vars

\* The load alone.
NextLoad == InitializeAppStart \/ InitializeAppResume
SpecLoad == Init /\ [][NextLoad]_vars

\* The instant the other specifications open the page at: noon of day 1.
Noon == {HoursPerDay + HoursPerDay \div 2}

\* The load and the favorites handlers.
NextFavorites ==
    \/ InitializeAppStart
    \/ InitializeAppResume
    \/ PressFavorite
    \/ PressRemove
SpecFavorites == InitWith(Noon, InitialStorage) /\ [][NextFavorites]_vars

\* The load and the handlers that touch the category layers; the favorite
\* buttons pressed are those of the tourism and facility popups.
NextLayers ==
    \/ InitializeAppStart
    \/ InitializeAppResume
    \/ ClickFilter
    \/ TypeSearch
    \/ PressFavoriteIn({"tourism", "facility"})
SpecLayers == InitWith(Noon, {NoItem, BrokenText}) /\ [][NextLayers]_vars

\* The sizing and coloring of a wifi icon, for each usage count 0 .. MaxUsers.
ComputeIcon ==
    /\ icon.users >= 0
    /\ icon.color = ""
    /\ icon' = WifiIcon(icon.users)
    /\ UNCHANGED << pc, map, mapLayers, markersLayer, allData, activeFilters,
                    currentRoute, routePolyline, routeMarkers, routeItems,
                    routeControls, favorites, storage, favoritesPanel, query,
                    clock, payloads, leaflet, lastOp >>
NextIcon == ComputeIcon
SpecIcon ==
    InitState(Noon, {NoItem}, {Pending(u) : u \in 0..MaxUsers}) /\ [][NextIcon]_vars

\* The load and the route handlers.
NextRoutes ==
    \/ InitializeAppStart
    \/ InitializeAppResume
    \/ ClickRoute
    \/ ClearRoute
SpecRoutes == InitWith(Noon, InitialStorage) /\ [][NextRoutes]_vars

\* ------------------------------------------------------------------ claims

\* The (category, id) pairs a popup button can name.
AllRefs ==
    UNION {{<<c, CategorySample(c)[k].id>> : k \in 1..Len(CategorySample(c))} :
              c \in FavoriteCategories}

\* The pair (category, id) has an entry in the list.
Holds(favs, category, id) ==
    \E i \in 1..Len(favs) : favs[i].id = id /\ favs[i].category = category

\* C1: the favorites list never holds two entries with the same
\* (category, id) pair, after any sequence of toggleFavoriteFromPopup /
\* toggleFavorite and removeFavorite calls.
C1_NoDuplicateFavorites ==
    favorites.isArray =>
        \A i, j \in 1..Len(favorites.items) :
            (/\ favorites.items[i].id = favorites.items[j].id
             /\ favorites.items[i].category = favorites.items[j].category) => i = j

\* C1 witness: a toggle has left two entries that share their id and differ
\* in their category.
C1_Witness ==
    /\ lastOp.op = "toggleFavorite"
    /\ Len(favorites.items) = 2
    /\ favorites.items[1].id = favorites.items[2].id
    /\ favorites.items[1].category # favorites.items[2].category

\* C2: when toggleFavorite or removeFavorite has returned, the slot
\* 'kure-map-favorites' holds the serialization of the favorites list, and
\* parsing it gives back the same entries in the same order.
C2_StoredMatchesFavorites ==
    lastOp.op \in {"toggleFavorite", "removeFavorite"} =>
        /\ storage = stringify(favorites)
        /\ storage.kind = "array"
        /\ parse(storage).value = favorites

\* C2 witness: removeFavorite has returned, and one entry is left in the
\* list and in the slot.
C2_Witness ==
    /\ lastOp.op = "removeFavorite"
    /\ Len(favorites.items) = 1
    /\ Len(storage.items) = 1

\* C3: for the favorites list of any reachable state and any item, the first
\* toggleFavorite flips the membership of the item's (category, id), and two
\* toggleFavorite calls in a row leave the membership of every pair, the
\* item's and all others, as it was.
C3_ToggleTwiceRestores ==
    favorites.isArray =>
        \A ref \in AllRefs :
            LET c == ref[1]
                spot == CHOOSE sp \in {CategorySample(c)[k] :
                                          k \in 1..Len(CategorySample(c))} :
                            sp.id = ref[2]
                item == PopupItemOf(c, spot)
                once == ToggleInList(favorites.items, item)
                twice == ToggleInList(once, item)
            IN  /\ Holds(once, c, item.id) = ~Holds(favorites.items, c, item.id)
                /\ \A other \in AllRefs :
                      Holds(twice, other[1], other[2])
                          = Holds(favorites.items, other[1], other[2])

\* C3 witness: toggleFavorite has run twice in a row for one pair while
\* another pair is a favorite; the pair toggled is no favorite again.
C3_Witness ==
    /\ lastOp.op = "toggleFavorite"
    /\ lastOp.twice
    /\ Len(favorites.items) = 1
    /\ ~Holds(favorites.items, lastOp.category, lastOp.id)

\* C4: after loadFavoritesFromStorage, favorites is an empty list whenever
\* the slot was absent or its content was no serialized array of favorites.
\* (The load specification never writes the slot, so storage is what
\* loadFavoritesFromStorage read.)
C4_CorruptSlotYieldsEmptyList ==
    (pc # "start" /\ storage.kind # "array") => favorites = Array(<<>>)

\* C5: when a fetch of loadAllData returned a non-success status or a
\* malformed payload, initializeApp has failed, allData is as it was before
\* the call (every category empty) and no layer group holds a marker.
C5_FailedLoadLeavesDataset ==
    (pc # "loading" /\ \E r \in ResourceSet : payloads[r] \in FailureKinds) =>
        /\ pc = "failed"
        /\ allData = EmptyData
        /\ \A c \in Categories : markersLayer[c] = <<>>

\* The events in a sequence of event records.
EventsIn(events) == {events[i] : i \in 1..Len(events)}
\* The calendar day of an instant.
DayOf(instant) == instant \div HoursPerDay

\* C10: after a load of the sample events at the instant clock, an event
\* whose endDate is the day before the day of clock is not in allData.event,
\* and an event whose endDate is the day of clock or a later day is.
C10_EventsThroughToday ==
    (/\ pc \in {"ready", "failed"}
     /\ \A r \in ResourceSet : payloads[r] \notin FailureKinds
     /\ payloads["events"] = "sample") =>
        \A e \in EventsIn(SampleEvents) :
            /\ e.endDate = DayOf(clock) - 1 => e \notin EventsIn(allData.event)
            /\ e.endDate >= DayOf(clock) => e \in EventsIn(allData.event)

\* C6: once the map exists, a category's layer group is on the map exactly
\* when the category's filter is true, whatever toggleFilter / applyFilters,
\* handleSearch (which re-renders the markers) and toggleFavorite did.
C6_LayersFollowFilters ==
    map = "created" =>
        \A c \in Categories : (LayerGroup(c) \in mapLayers) <=> activeFilters[c]

\* C6 witness: handleSearch has just re-rendered every group while a filter
\* is false; that category's group holds markers and is off the map.
C6_Witness ==
    /\ lastOp.op = "handleSearch"
    /\ Len(query) < MinQueryLength
    /\ \E c \in Categories :
          /\ ~activeFilters[c]
          /\ markersLayer[c] # <<>>
          /\ LayerGroup(c) \notin mapLayers

\* The route layers on the map, and those a route is drawn with.
RouteLayersOnMap == {l \in mapLayers : l.kind \in {"polyline", "waypoint"}}
LayersOf(route) ==
    IF route = NoRoute THEN {}
    ELSE {Polyline(route)} \cup {Waypoint(route, i) : i \in 1..Len(route.waypoints)}
ActiveItems == {i \in 1..Len(routeItems) : routeItems[i].active}

\* C7: after any sequence of showRoute and clearRoute calls, currentRoute is
\* the route of the last call when that was a showRoute that returned and
\* null otherwise; the polyline and waypoint markers on the map are exactly
\* those of currentRoute (none for null); and the active route items are the
\* one item of currentRoute, or none.
C7_OneRouteAtMost ==
    /\ RouteLayersOnMap = LayersOf(currentRoute)
    /\ IF lastOp.op = "showRoute"
       THEN /\ currentRoute \in Range(allData.routes)
            /\ currentRoute.id = lastOp.route
            /\ Cardinality(ActiveItems) = 1
            /\ \A i \in ActiveItems : routeItems[i].routeId = currentRoute.id
       ELSE /\ currentRoute = NoRoute
            /\ ActiveItems = {}
    /\ routePolyline = (IF currentRoute = NoRoute THEN NoLayer
                        ELSE Polyline(currentRoute))
    /\ Range(routeMarkers) = LayersOf(currentRoute) \ {routePolyline}

\* C7 witness: route B has been shown while route A was active.
C7_Witness ==
    /\ lastOp.op = "showRoute"
    /\ lastOp.route = "B"
    /\ lastOp.replaced = "A"
    /\ currentRoute.id = "B"

\* A spot matches a query: its name or its address / location contains the
\* query, compared without regard to case.
Matches(spot, q) ==
    \/ includes(toLowerCase(spot.name), toLowerCase(q))
    \/ includes(toLowerCase(spot.address), toLowerCase(q))
RECURSIVE Matching(_, _)
Matching(spots, q) ==
    IF spots = <<>> THEN <<>>
    ELSE IF Matches(Head(spots), q) THEN <<Head(spots)>> \o Matching(Tail(spots), q)
         ELSE Matching(Tail(spots), q)
\* The records the markers of a layer group were built from, in order.
SpotsOf(layer) == [i \in 1..Len(layer) |-> layer[i].spot]

\* C8: after handleSearch with a query of two or more characters, every
\* category's layer group holds exactly one marker for each matching spot of
\* that category and none for any other spot.
C8_SearchShowsMatches ==
    (lastOp.op = "handleSearch" /\ Len(query) >= MinQueryLength) =>
        \A c \in Categories : SpotsOf(markersLayer[c]) = Matching(allData[c], query)

\* C9: after handleSearch with a query of length 0 or 1, every category's
\* layer group holds exactly one marker per record of allData for that
\* category, in order.
C9_ShortQueryRendersAll ==
    (lastOp.op = "handleSearch" /\ Len(query) < MinQueryLength) =>
        \A c \in Categories : SpotsOf(markersLayer[c]) = allData[c]

\* C9 witness: handleSearch has run with a one-character query over a
\* dataset with events and wifi spots.
C9_Witness ==
    /\ lastOp.op = "handleSearch"
    /\ Len(query) = 1
    /\ allData.event # <<>>
    /\ allData.wifi # <<>>

\* The favorite state the popup of a marker shows when it is opened: the
\* popup was built when the marker was rendered (bindPopup, app.js:232, 248,
\* 265), so it is the marker's snapshot.
PopupShows(category, i) == markersLayer[category][i].isFavorite

\* C11: after toggleFavorite (from a popup) or removeFavorite (from the
\* favorites list), the popup of every marker of the spot toggled shows the
\* spot's current membership of the favorites list.
C11_PopupShowsCurrentMembership ==
    lastOp.op \in {"toggleFavorite", "removeFavorite"} =>
        \A i \in 1..Len(markersLayer[lastOp.category]) :
            markersLayer[lastOp.category][i].spot.id = lastOp.id =>
                PopupShows(lastOp.category, i)
                    = Holds(favorites.items, lastOp.category, lastOp.id)

\* C12: for every entry of the favorites list of a reachable state,
\* removeFavorite(id, category) called for the entry's pair leaves the same
\* favorites list and the same text in the slot as toggleFavorite called for
\* an item of that pair.
C12_RemoveIsToggleOff ==
    favorites.isArray =>
        \A k \in 1..Len(favorites.items) :
            LET fav == favorites.items[k]
                item == PopupItem(fav.category, fav.id, 0, 0)
                removed == removeFavorite(favorites, storage, fav.id, fav.category)
                toggled == toggleFavorite(favorites, storage, item)
            IN  /\ removed.favorites = toggled.favorites
                /\ removed.storage = toggled.storage
                /\ ~Holds(removed.favorites.items, fav.category, fav.id)

\* C12 witness: removeFavorite has removed one of two favorites that share
\* their id; the entry of the other category is left.
C12_Witness ==
    /\ lastOp.op = "removeFavorite"
    /\ Len(favorites.items) = 1
    /\ favorites.items[1].id = lastOp.id
    /\ favorites.items[1].category # lastOp.category

\* C13: applyFilters is idempotent.  From the layers of any reachable state
\* and for any filter state, a second applyFilters in a row leaves the set
\* of layers on the map that the first one left; and when toggleFilter has
\* just called applyFilters, one more call with activeFilters unchanged
\* attaches and detaches nothing.
C13_ApplyFiltersIdempotent ==
    /\ \A filters \in [Categories -> BOOLEAN] :
          LET once == applyFilters(mapLayers, filters)
          IN  applyFilters(once, filters) = once
    /\ lastOp.op = "toggleFilter" =>
          applyFilters(mapLayers, activeFilters) = mapLayers

\* C13 witness: toggleFilter has run applyFilters with one filter false and
\* another true; the first group is off the map and the second is on it.
C13_Witness ==
    /\ lastOp.op = "toggleFilter"
    /\ \E c, d \in Categories :
          /\ ~activeFilters[c] /\ LayerGroup(c) \notin mapLayers
          /\ activeFilters[d] /\ LayerGroup(d) \in mapLayers

\* A record's latitude and longitude both parse to a number.
HasPosition(spot) ==
    parseFloat(spot.latitude).ok /\ parseFloat(spot.longitude).ok
\* The records of a sequence that have a position, in order.
Positioned(spots) == SelectSeq(spots, HasPosition)

\* C14: when the load has succeeded and the render functions have run with
\* favorites an array, every category's layer group holds one marker for
\* each record of allData whose latitude and longitude parse to numbers,
\* and no marker for a record whose latitude or longitude does not.
C14_InvalidPositionsSkipped ==
    (/\ pc \in {"ready", "failed"}
     /\ favorites.isArray
     /\ \A r \in ResourceSet : payloads[r] \notin FailureKinds) =>
        \A c \in Categories : SpotsOf(markersLayer[c]) = Positioned(allData[c])

\* C15: for every usage count u >= 0, getMarkerSize(u) is u / 5 clamped to
\* [20, 50]: 20 when u / 5 < 20, 50 when u / 5 > 50 and u / 5 itself
\* otherwise; and getMarkerSize(v) <= getMarkerSize(u) for every 0 <= v <= u.
C15_MarkerSizeIsClamp ==
    (icon.users >= 0 /\ icon.color # "") =>
        LET u == icon.users
            fifth == Divide(u, 5)
        IN  /\ Less(fifth, Whole(20)) => SameNumber(icon.size, Whole(20))
            /\ Less(Whole(50), fifth) => SameNumber(icon.size, Whole(50))
            /\ (~Less(fifth, Whole(20)) /\ ~Less(Whole(50), fifth)) =>
                  SameNumber(icon.size, fifth)
            /\ \A v \in 0..u : ~Less(icon.size, getMarkerSize(v))

\* C15 witness: the size of the icon for 123 users has been computed, and it
\* is the fraction 123 / 5, between the two ends.
C15_Witness ==
    /\ icon.users = 123
    /\ icon.color # ""
    /\ Less(Whole(20), icon.size)
    /\ Less(icon.size, Whole(50))
    /\ ~SameNumber(icon.size, Whole(123 \div 5))

\* The tiers of the coloring rule, from the highest alert to the baseline.
HighestAlert == "#F44336"
High == "#FF9800"
Medium == "#FFC107"
Baseline == "#4CAF50"

\* C16: for every usage count u, getWifiMarkerColor(u) is the highest-alert
\* color when u > 150, the high color when 100 < u <= 150, the medium color
\* when 50 < u <= 100 and the baseline wifi color when u <= 50; 150, 100 and
\* 50 themselves get the color of the lower tier.
C16_ColorFollowsThresholds ==
    (icon.users >= 0 /\ icon.color # "") =>
        LET u == icon.users
        IN  /\ u > 150 => icon.color = HighestAlert
            /\ (100 < u /\ u <= 150) => icon.color = High
            /\ (50 < u /\ u <= 100) => icon.color = Medium
            /\ u <= 50 => icon.color = Baseline
            /\ Cardinality({HighestAlert, High, Medium, Baseline}) = 4

\* C16 witness: the color for the boundary count 150 has been computed, and
\* it is the high color, not the highest-alert one.
C16_Witness ==
    /\ icon.users = 150
    /\ icon.color = High

====
